---- MODULE Spec2Model ----
(***************************************************************************)
(* Model of the relay client of pkarr (pkarr/src/client/relays.rs):        *)
(* the registry of in-flight publish requests (InflightPublishRequests),   *)
(* its admission (start_request) and voting (add_result) operations, and   *)
(* the publish orchestrator that fans one write out to every relay.        *)
(***************************************************************************)
EXTENDS Naturals, FiniteSets, Sequences, TLC

VARIABLES
    relays_count,  \* InflightPublishRequests.relays_count (= relays.len())
    requests,      \* InflightPublishRequests.requests: HashMap<PublicKey, InflightPublishRequest>
    poisoned,      \* the RwLock around requests was poisoned by a panic under the write guard
    pc,            \* per publish call: "idle", or "running" between start_request and the return
    call_key,      \* per running publish call: signed_packet.public_key()
    call_packet,   \* per running publish call: the signed_packet argument
    pending,       \* per running publish call: relay futures pushed and not yet completed
    attached,      \* per running publish call: the entry that admitted it is still in the registry
    peer_result,   \* per running publish call: the decision another call took on the entry it shares
    last,          \* the step just taken: its inputs, the registry it found, what it returned
    resolving      \* the stream of the resolve call in progress, or of the last one

vars == <<relays_count, requests, poisoned, pc, call_key, call_packet,
          pending, attached, peer_result, last, resolving>>

----
\* Bounds of the model.
MaxRelays == 3
MaxRelaysKeys == 1
MaxRelaysSolo == 5
MaxKeys == 2
MaxCalls == 2
MaxSig == 2
MaxExcess == 1
MaxRelaysResolve == 3

Keys == 1..MaxKeys
Calls == 1..MaxCalls
RelayCounts == 1..MaxRelays

\* Signed records: the signature identifies the record; records 2 and 3, 4
\* and 5, ... share a timestamp.
timestamp(sig) == (sig \div 2) + 1
Packets == {[sig |-> s, ts |-> timestamp(s)] : s \in 1..MaxSig}
Timestamps == 1..(timestamp(MaxSig) + 1)

None == 0
NoKey == 0
NoPacket == [sig |-> 0, ts |-> 0]
CasTokens == {None} \cup Timestamps

\* PublishError values that reach this file: Query(Timeout) and the three
\* Concurrency errors.
ErrorKinds == {"Timeout", "NotMostRecent", "CasFailed", "ConflictRisk"}

\* What one PUT to one relay can end in: a status that is no 4xx/5xx, an error
\* status, a timeout, or another transport failure.
Outcomes == {"s200", "s304", "s400", "s409", "s412", "s428", "s500", "s503",
             "timeout", "transport"}

\* Panics that end a publish call.
PanicLock == "panic: InflightPublishRequests write lock"
PanicEntry == "panic: infallible (no entry)"
PanicStream == "panic: infallible (stream ended)"
PanicTodo == "panic: not yet implemented"
Panics == {PanicLock, PanicEntry, PanicStream, PanicTodo}

NoEntry == [signed_packet |-> NoPacket, success_count |-> 0, errors |-> <<>>]

\* The entry of key k in the registry, NoEntry when there is none.
entry(reqs, k) == IF k \in DOMAIN reqs THEN reqs[k] ELSE NoEntry

NoLast ==
    [op |-> "none", call |-> 0, key |-> NoKey, packet |-> NoPacket, cas |-> None,
     outcome |-> "none", fed |-> "none", had_entry |-> FALSE, before |-> NoEntry,
     ret |-> "none", result |-> "none", left |-> 0, peer |-> "none",
     reqs |-> <<>>, att |-> FALSE]

----
\* SignedPacket::more_recent_than: a strict order on records, by timestamp
\* and, for equal timestamps, by the bytes of the record.
more_recent_than(a, b) ==
    IF a.ts = b.ts THEN a.sig > b.sig ELSE a.ts > b.ts

majority(n) == (n \div 2) + 1

done(n, request) ==
    Cardinality(DOMAIN request.errors) + request.success_count = n

\* remove that clears the whole map.
remove_all(map, k) == <<>>

remove(map, k) == [x \in (DOMAIN map) \ {k} |-> map[x]]

insert(map, k, v) == [x \in (DOMAIN map) \cup {k} |-> IF x = k THEN v ELSE map[x]]

\* start_request that lets a rejected newer record supersede the admitted one.
start_request_superseding(reqs, public_key, signed_packet, cas) ==
    IF public_key \in DOMAIN reqs
    THEN LET inflight_request == reqs[public_key]
             superseded == [reqs EXCEPT ![public_key].signed_packet = signed_packet]
         IN
         IF signed_packet.sig = inflight_request.signed_packet.sig
         THEN [ret |-> "Ok", requests |-> reqs]
         ELSE IF ~more_recent_than(signed_packet, inflight_request.signed_packet)
         THEN [ret |-> "NotMostRecent", requests |-> reqs]
         ELSE IF cas # None
         THEN IF cas # inflight_request.signed_packet.ts
              THEN [ret |-> "CasFailed", requests |-> superseded]
              ELSE [ret |-> "Ok", requests |-> reqs]
         ELSE [ret |-> "ConflictRisk", requests |-> superseded]
    ELSE [ret |-> "Ok",
          requests |-> insert(reqs, public_key,
                              [signed_packet |-> signed_packet,
                               success_count |-> 0,
                               errors |-> <<>>])]

\* The value start_request returns ("Ok" or an error) and the registry it leaves.
start_request(reqs, public_key, signed_packet, cas) ==
    IF public_key \in DOMAIN reqs
    THEN LET inflight_request == reqs[public_key] IN
         IF signed_packet.sig = inflight_request.signed_packet.sig
         THEN [ret |-> "Ok", requests |-> reqs]
         ELSE IF ~more_recent_than(signed_packet, inflight_request.signed_packet)
         THEN [ret |-> "NotMostRecent", requests |-> reqs]
         ELSE IF cas # None
         THEN IF cas # inflight_request.signed_packet.ts
              THEN [ret |-> "CasFailed", requests |-> reqs]
              ELSE [ret |-> "Ok", requests |-> reqs]
         ELSE [ret |-> "ConflictRisk", requests |-> reqs]
    ELSE [ret |-> "Ok",
          requests |-> insert(reqs, public_key,
                              [signed_packet |-> signed_packet,
                               success_count |-> 0,
                               errors |-> <<>>])]

\* add_success with the majority test off by one (> for >=).
add_success_late(reqs, n, public_key) ==
    LET request == [reqs[public_key] EXCEPT !.success_count = @ + 1]
        updated == [reqs EXCEPT ![public_key] = request]
    IN  IF done(n, request)
        THEN {[ret |-> "true", requests |-> updated]}
        ELSE IF request.success_count > majority(n)
        THEN {[ret |-> "true", requests |-> remove(reqs, public_key)]}
        ELSE {[ret |-> "false", requests |-> updated]}

\* add_success on an existing entry: "true" is Ok(true), "false" is Ok(false).
add_success(reqs, n, public_key) ==
    LET request == [reqs[public_key] EXCEPT !.success_count = @ + 1]
        updated == [reqs EXCEPT ![public_key] = request]
    IN  IF done(n, request)
        THEN {[ret |-> "true", requests |-> updated]}
        ELSE IF request.success_count >= majority(n)
        THEN {[ret |-> "true", requests |-> remove(reqs, public_key)]}
        ELSE {[ret |-> "false", requests |-> updated]}

\* The error kinds max_by_key can return: the HashMap iterates in an
\* arbitrary order, so any kind of maximal count.
most_common_error(errors) ==
    {e \in DOMAIN errors : \A f \in DOMAIN errors : errors[f] <= errors[e]}

\* The count of an error kind in an entry.
error_count(request, error) ==
    IF error \in DOMAIN request.errors THEN request.errors[error] ELSE 0

\* add_error with the early return for NotMostRecent only, CasFailed forgotten.
add_error_one_kind(reqs, n, public_key, error) ==
    LET old == reqs[public_key]
        count == error_count(old, error) + 1
        request == [old EXCEPT !.errors = insert(old.errors, error, count)]
    IN  IF count >= majority(n) /\ error = "NotMostRecent"
        THEN {[ret |-> error, requests |-> remove(reqs, public_key)]}
        ELSE IF done(n, request)
        THEN IF request.success_count >= majority(n)
             THEN {[ret |-> "true", requests |-> remove(reqs, public_key)]}
             ELSE {[ret |-> e, requests |-> remove(reqs, public_key)] :
                       e \in most_common_error(request.errors)}
        ELSE {[ret |-> "false", requests |-> [reqs EXCEPT ![public_key] = request]]}

\* add_error on an existing entry: the error kind is Err(kind).
add_error(reqs, n, public_key, error) ==
    LET old == reqs[public_key]
        count == error_count(old, error) + 1
        request == [old EXCEPT !.errors = insert(old.errors, error, count)]
    IN  IF count >= majority(n) /\ error \in {"NotMostRecent", "CasFailed"}
        THEN {[ret |-> error, requests |-> remove(reqs, public_key)]}
        ELSE IF done(n, request)
        THEN IF request.success_count >= majority(n)
             THEN {[ret |-> "true", requests |-> remove(reqs, public_key)]}
             ELSE {[ret |-> e, requests |-> remove(reqs, public_key)] :
                       e \in most_common_error(request.errors)}
        ELSE {[ret |-> "false", requests |-> [reqs EXCEPT ![public_key] = request]]}

\* add_result, with the lock it takes and the entry it expects: the values
\* it can return (or the panic), the registry and the lock it leaves.
add_result(reqs, lock_poisoned, n, public_key, res) ==
    IF lock_poisoned
    THEN {[ret |-> PanicLock, requests |-> reqs, poisoned |-> TRUE]}
    ELSE IF public_key \notin DOMAIN reqs
    THEN {[ret |-> PanicEntry, requests |-> reqs, poisoned |-> TRUE]}
    ELSE {[ret |-> r.ret, requests |-> r.requests, poisoned |-> FALSE] :
              r \in IF res = "Ok"
                    THEN add_success(reqs, n, public_key)
                    ELSE add_error(reqs, n, public_key, res)}

\* publish_to_relay: Ok(()) or the reqwest error.
publish_to_relay(outcome) ==
    IF outcome \in {"s200", "s304"} THEN "Ok" ELSE outcome

\* map_reqwest_error: the PublishError, or "todo" where the code panics.
map_reqwest_error(error) ==
    CASE error = "timeout" -> "Timeout"
      [] error = "s409" -> "NotMostRecent"
      [] error = "s412" -> "CasFailed"
      [] error = "s428" -> "ConflictRisk"
      [] error \in {"s400", "s500", "s503"} -> "todo"
      [] OTHER -> "Timeout"

\* The relay future of publish: the result it hands to add_result, or the
\* panic of the mapping, which ends it before add_result.
relay_future(reqs, lock_poisoned, n, public_key, outcome) ==
    LET r == publish_to_relay(outcome)
        res == IF r = "Ok" THEN "Ok" ELSE map_reqwest_error(r)
    IN  IF res = "todo"
        THEN {[fed |-> "none", ret |-> PanicTodo, requests |-> reqs,
               poisoned |-> lock_poisoned]}
        ELSE {[fed |-> res, ret |-> f.ret, requests |-> f.requests,
               poisoned |-> f.poisoned] :
                  f \in add_result(reqs, lock_poisoned, n, public_key, res)}

\* What publish makes of the value of one relay future, with left futures
\* still to complete: the first decisive value of the stream is returned, a
\* panic of the future ends the call, the end of the stream panics.
stream_next(ret, left) ==
    IF ret \in Panics THEN ret
    ELSE IF ret = "true" THEN "Ok"
    ELSE IF ret \in ErrorKinds THEN ret
    ELSE IF left = 0 THEN PanicStream
    ELSE "none"

\* The tally of an entry: every relay result counted in it.
tally(request) ==
    LET RECURSIVE sum(_)
        sum(S) == IF S = {} THEN 0
                  ELSE LET e == CHOOSE x \in S : TRUE
                       IN  request.errors[e] + sum(S \ {e})
    IN  request.success_count + sum(DOMAIN request.errors)

----
\* SignedPacket::MAX_BYTES, in the unit of the model's content lengths.
MAX_BYTES == 1

\* What one GET to one relay can end in. send: the request got a response or
\* failed (transport failure, timeout); status: the status of the response;
\* content_length: the declared length, None when the header is absent; body:
\* the bytes read, "read_error" when reading them fails, "undecodable" for
\* bytes that are no relay payload, or the payload of a record that a key signed.
Bodies == {[read |-> "error", key |-> NoKey, sig |-> 0],
           [read |-> "undecodable", key |-> NoKey, sig |-> 0]}
          \cup {[read |-> "payload", key |-> k, sig |-> g] : k \in Keys, g \in 1..MaxSig}
Responses ==
    [send : {"ok", "error"},
     status : {200, 304, 404, 500},
     content_length : {None, MAX_BYTES, MAX_BYTES + 1},
     body : Bodies]
NoResponse ==
    [send |-> "none", status |-> 0, content_length |-> None,
     body |-> [read |-> "none", key |-> NoKey, sig |-> 0]]

\* SignedPacket::from_relay_payload: the record, when the payload decodes and
\* its signature verifies against the public key; the empty set for Err.
from_relay_payload(public_key, payload) ==
    IF payload.read = "payload" /\ payload.key = public_key
    THEN {[sig |-> payload.sig, ts |-> timestamp(payload.sig)]}
    ELSE {}

\* resolve_from_relay without the guard on the declared length.
resolve_from_relay_unguarded(public_key, response) ==
    IF response.send = "error" THEN {}
    ELSE IF response.status >= 400 THEN {}
    ELSE IF response.body.read = "error" THEN {}
    ELSE from_relay_payload(public_key, response.body)

\* resolve_from_relay: Option<SignedPacket> as a set, empty for None.
resolve_from_relay(public_key, response) ==
    IF response.send = "error" THEN {}
    ELSE IF response.status >= 400 THEN {}
    ELSE IF response.content_length > MAX_BYTES THEN {}
    ELSE IF response.body.read = "error" THEN {}
    ELSE from_relay_payload(public_key, response.body)

NoResolve ==
    [public_key |-> NoKey, if_modified_since |-> None, futures |-> 0,
     items |-> <<>>, valid |-> 0, response |-> NoResponse]

----
InitWith(counts) ==
    /\ relays_count \in counts
    /\ requests = <<>>
    /\ poisoned = FALSE
    /\ pc = [c \in Calls |-> "idle"]
    /\ call_key = [c \in Calls |-> NoKey]
    /\ call_packet = [c \in Calls |-> NoPacket]
    /\ pending = [c \in Calls |-> 0]
    /\ attached = [c \in Calls |-> FALSE]
    /\ peer_result = [c \in Calls |-> "none"]
    /\ last = NoLast
    /\ resolving = NoResolve

\* RelaysClient::publish up to the first await: start_request, then one
\* future per relay.
Publish(c, signed_packet, public_key, cas) ==
    LET step == [NoLast EXCEPT !.op = "publish", !.call = c, !.key = public_key,
                               !.packet = signed_packet, !.cas = cas,
                               !.had_entry = public_key \in DOMAIN requests,
                               !.before = entry(requests, public_key),
                               !.reqs = requests]
    IN
    /\ pc[c] = "idle"
    /\ UNCHANGED <<relays_count, poisoned, peer_result, resolving>>
    /\ IF poisoned
       THEN /\ last' = [step EXCEPT !.ret = PanicLock, !.result = PanicLock]
            /\ UNCHANGED <<requests, pc, call_key, call_packet, pending, attached>>
       ELSE LET r == start_request(requests, public_key, signed_packet, cas) IN
            /\ requests' = r.requests
            /\ IF r.ret = "Ok"
               THEN /\ pc' = [pc EXCEPT ![c] = "running"]
                    /\ pending' = [pending EXCEPT ![c] = relays_count]
                    /\ call_key' = [call_key EXCEPT ![c] = public_key]
                    /\ call_packet' = [call_packet EXCEPT ![c] = signed_packet]
                    /\ attached' = [attached EXCEPT ![c] = TRUE]
                    /\ last' = [step EXCEPT !.ret = "Ok"]
               ELSE /\ last' = [step EXCEPT !.ret = r.ret, !.result = r.ret]
                    /\ UNCHANGED <<pc, call_key, call_packet, pending, attached>>

\* The tally of the entry of call c stays within the model's cap.
WithinTally(c) ==
    IF poisoned \/ call_key[c] \notin DOMAIN requests
    THEN TRUE
    ELSE tally(requests[call_key[c]]) < relays_count + MaxExcess

\* The calls that share the entry of call c: admitted to the same entry with
\* a record of the same signature, and still running.
Sharing(c) ==
    {d \in Calls \ {c} : /\ pc[d] = "running"
                         /\ attached[c]
                         /\ attached[d]
                         /\ call_key[d] = call_key[c]
                         /\ call_packet[d].sig = call_packet[c].sig}

\* One relay future of call c completes with the given outcome: it maps the
\* outcome and hands it to add_result, and publish takes the first decisive
\* value of the stream; when publish ends, its other futures are dropped.
RelayResponds(c, outcome) ==
    LET k == call_key[c]
        left == pending[c] - 1
    IN
    /\ pc[c] = "running"
    /\ pending[c] > 0
    /\ WithinTally(c)
    /\ UNCHANGED <<relays_count, resolving>>
    /\ \E f \in relay_future(requests, poisoned, relays_count, k, outcome) :
       LET v == stream_next(f.ret, left)
           removed == k \in DOMAIN requests /\ k \notin DOMAIN f.requests
       IN
       /\ requests' = f.requests
       /\ poisoned' = f.poisoned
       /\ pc' = [pc EXCEPT ![c] = IF v = "none" THEN "running" ELSE "idle"]
       /\ call_key' = [call_key EXCEPT ![c] = IF v = "none" THEN k ELSE NoKey]
       /\ call_packet' = [call_packet EXCEPT ![c] = IF v = "none" THEN @ ELSE NoPacket]
       /\ pending' = [pending EXCEPT ![c] = IF v = "none" THEN left ELSE 0]
       /\ attached' = [d \in Calls |->
                          IF d = c /\ v # "none" THEN FALSE
                          ELSE IF removed /\ call_key[d] = k THEN FALSE
                          ELSE attached[d]]
       /\ peer_result' = [d \in Calls |->
                             IF d = c /\ v # "none" THEN "none"
                             ELSE IF v \in {"Ok"} \cup ErrorKinds /\ d \in Sharing(c) THEN v
                             ELSE peer_result[d]]
       /\ last' = [NoLast EXCEPT !.op = "respond", !.call = c, !.key = k,
                                 !.packet = call_packet[c], !.outcome = outcome,
                                 !.fed = f.fed,
                                 !.had_entry = k \in DOMAIN requests,
                                 !.before = entry(requests, k),
                                 !.ret = f.ret, !.result = v,
                                 !.left = left,
                                 !.peer = peer_result[c],
                                 !.reqs = requests, !.att = attached[c]]

\* A relay returns a validly signed record of the key, of a size within the
\* maximum.
ValidRecord(public_key, response) ==
    /\ response.send = "ok"
    /\ response.status < 400
    /\ response.content_length <= MAX_BYTES
    /\ response.body.read = "payload"
    /\ response.body.key = public_key

\* RelaysClient::resolve: one future per relay; the stream of the previous
\* resolve has been consumed.
Resolve(public_key, if_modified_since) ==
    /\ resolving.futures = 0
    /\ resolving' = [NoResolve EXCEPT !.public_key = public_key,
                                      !.if_modified_since = if_modified_since,
                                      !.futures = relays_count]
    /\ UNCHANGED <<relays_count, requests, poisoned, pc, call_key, call_packet,
                   pending, attached, peer_result, last>>

\* One relay future of the resolve completes: filter_map yields its record,
\* if it has one; the stream ends with the last future.
RelayAnswers(response) ==
    LET opt == resolve_from_relay(resolving.public_key, response) IN
    /\ resolving.futures > 0
    /\ resolving' = [resolving EXCEPT
                         !.futures = @ - 1,
                         !.items = IF opt = {} THEN @
                                   ELSE Append(@, CHOOSE x \in opt : TRUE),
                         !.valid = IF ValidRecord(resolving.public_key, response)
                                   THEN @ + 1 ELSE @,
                         !.response = response]
    /\ UNCHANGED <<relays_count, requests, poisoned, pc, call_key, call_packet,
                   pending, attached, peer_result, last>>

\* The steps of the calls C on the keys K.
Step(K, C) ==
    \/ \E c \in C, p \in Packets, k \in K, cas \in CasTokens : Publish(c, p, k, cas)
    \/ \E c \in C, o \in Outcomes : RelayResponds(c, o)

\* Overlapping publish calls of one key, on 1..MaxRelays relays.
Init == InitWith(RelayCounts)
Next == Step({1}, Calls)
Spec == Init /\ [][Next]_vars

\* Overlapping publish calls of several keys, on 1..MaxRelaysKeys relays.
InitKeys == InitWith(1..MaxRelaysKeys)
NextKeys == Step(Keys, Calls)
SpecKeys == InitKeys /\ [][NextKeys]_vars

\* One publish call after the other of one key, on 1..MaxRelaysSolo relays.
InitSolo == InitWith(1..MaxRelaysSolo)
NextSolo == Step({1}, {1})
SpecSolo == InitSolo /\ [][NextSolo]_vars

\* Resolve calls of several keys, on 1..MaxRelaysResolve relays.
InitResolve == InitWith(1..MaxRelaysResolve)
NextResolve ==
    \/ \E k \in Keys, t \in CasTokens : Resolve(k, t)
    \/ \E r \in Responses : RelayAnswers(r)
SpecResolve == InitResolve /\ [][NextResolve]_vars

TypeOK ==
    /\ DOMAIN requests \subseteq Keys
    /\ poisoned \in BOOLEAN
    /\ \A c \in Calls : pc[c] \in {"idle", "running"}
    /\ \A c \in Calls : pending[c] \in 0..relays_count

----
\* An entry with one more relay result counted in it.
Counted(request, res) ==
    IF res = "Ok"
    THEN [request EXCEPT !.success_count = @ + 1]
    ELSE [request EXCEPT !.errors = insert(@, res, error_count(request, res) + 1)]

\* The step just taken counted a relay result in an entry: add_result took
\* the lock and found the entry of its key.
Voted ==
    /\ last.op = "respond"
    /\ last.fed # "none"
    /\ last.had_entry
    /\ last.ret \notin Panics

\* The step just taken made publish return a value to its caller.
Returned == last.result \in {"Ok"} \cup ErrorKinds

\* The entry of the step just taken, with the result of the step counted.
Recount == Counted(last.before, last.fed)

ConflictClass == {"NotMostRecent", "CasFailed"}

\* C1: publish reports success only when the success counter of the entry
\* has reached majority.
C1_SuccessOnlyWithMajority ==
    (last.op = "respond" /\ last.result = "Ok")
        => Recount.success_count >= majority(relays_count)

\* C2: the result stream of a publish never ends without a decision: when
\* the last relay has reported, some add_result call has been decisive.
C2_StreamAlwaysDecides ==
    last.result # PanicStream

\* C3: the entry of a key is removed at the step that produces a decision for
\* it, and once a publish has returned and no other publish of the key is in
\* flight, the registry holds no entry for the key.
C3_EntryRemovedWithDecision ==
    /\ (Voted /\ Returned) => last.key \notin DOMAIN requests
    /\ (Returned /\ \A c \in Calls : call_key[c] # last.key)
           => last.key \notin DOMAIN requests

\* C4: every entry of the registry holds at most relays_count results.
C4_TallyWithinRelayCount ==
    \A k \in DOMAIN requests : tally(requests[k]) <= relays_count

\* C5: a relay result that arrives for a key without an entry is a no-op:
\* add_result returns Ok(false), and nothing panics.
C5_StrayResultIsNoOp ==
    (last.op = "respond" /\ last.fed # "none" /\ ~last.had_entry)
        => (last.ret = "false" /\ ~poisoned)

\* C6: a publish call that shares its entry with a call of the same record
\* returns what that call returned, when its next relay result is counted.
C6_SharedDecision ==
    (last.op = "respond" /\ last.fed # "none" /\ last.peer # "none"
                         /\ last.result # "none")
        => last.result = last.peer

\* C7: at the step where the success counter of an entry reaches majority,
\* publish returns success, whatever number of relays is still to report.
C7_MajoritySuccessReturnsAtOnce ==
    (Voted /\ last.fed = "Ok"
           /\ last.before.success_count + 1 >= majority(relays_count))
        => last.result = "Ok"

\* Five relays: the third success, no error counted, two relays left.
C7_Witness ==
    /\ Voted
    /\ relays_count = 5
    /\ last.fed = "Ok"
    /\ last.before.success_count = 2
    /\ DOMAIN last.before.errors = {}
    /\ last.left = 2
    /\ last.result = "Ok"

\* C8: at the step where the count of NotMostRecent or of CasFailed reaches
\* majority, the entry is removed and publish returns that error, whatever
\* number of relays is still to report.
C8_ConflictMajorityFailsAtOnce ==
    (Voted /\ last.fed \in ConflictClass
           /\ error_count(last.before, last.fed) + 1 >= majority(relays_count))
        => (last.result = last.fed /\ last.key \notin DOMAIN requests)

\* Five relays: the third CasFailed, no success counted, two relays left.
C8_Witness ==
    /\ Voted
    /\ relays_count = 5
    /\ last.fed = "CasFailed"
    /\ error_count(last.before, "CasFailed") = 2
    /\ last.before.success_count = 0
    /\ last.left = 2
    /\ last.result = "CasFailed"
    /\ last.key \notin DOMAIN requests

\* C9: when the last of the relays_count relays of a publish has reported,
\* with neither success nor a conflict-class error at majority, publish
\* returns a failure with an error kind of maximal count.
C9_FullCompletionFailsWithMostCommon ==
    (/\ Voted
     /\ last.left = 0
     /\ tally(Recount) = relays_count
     /\ Recount.success_count < majority(relays_count)
     /\ \A e \in ConflictClass : error_count(Recount, e) < majority(relays_count))
        => last.result \in most_common_error(Recount.errors)

\* C10: a publish of a record that differs from the admitted record of its
\* key and is not more recent returns NotMostRecent and issues no relay write.
C10_StaleRecordRejected ==
    (/\ last.op = "publish"
     /\ last.had_entry
     /\ last.packet.sig # last.before.signed_packet.sig
     /\ ~more_recent_than(last.packet, last.before.signed_packet))
        => (/\ last.result = "NotMostRecent"
            /\ pc[last.call] = "idle"
            /\ pending[last.call] = 0)

\* The same, for the steps that find the lock of the registry sound.
StaleRecordRejectedUnderSoundLock ==
    (/\ last.op = "publish"
     /\ last.ret # PanicLock
     /\ last.had_entry
     /\ last.packet.sig # last.before.signed_packet.sig
     /\ ~more_recent_than(last.packet, last.before.signed_packet))
        => (/\ last.result = "NotMostRecent"
            /\ pc[last.call] = "idle"
            /\ pending[last.call] = 0)

\* The publish just attempted found an entry of its key that admits a
\* different record, and its own record is more recent than the admitted one.
NewerThanAdmitted ==
    /\ last.op = "publish"
    /\ last.had_entry
    /\ last.packet.sig # last.before.signed_packet.sig
    /\ more_recent_than(last.packet, last.before.signed_packet)

\* The publish just attempted ended at once: no relay future was pushed.
EndedAtAdmission ==
    /\ pc[last.call] = "idle"
    /\ pending[last.call] = 0

\* C11: a publish without a CAS token of a record more recent than the
\* different record admitted for its key returns ConflictRisk at once.
C11_NewerWithoutCasIsConflictRisk ==
    (NewerThanAdmitted /\ last.cas = None)
        => (last.result = "ConflictRisk" /\ EndedAtAdmission)

\* The same, for the steps that find the lock of the registry sound.
NewerWithoutCasUnderSoundLock ==
    (NewerThanAdmitted /\ last.cas = None /\ last.ret # PanicLock)
        => (last.result = "ConflictRisk" /\ EndedAtAdmission)

\* The publish just attempted was admitted: its relay futures are pushed.
Admitted ==
    /\ last.ret = "Ok"
    /\ pc[last.call] = "running"
    /\ pending[last.call] = relays_count

\* No step replaces the record admitted in an entry that stays in the registry.
AdmittedRecordKept ==
    \A k \in DOMAIN last.reqs \cap DOMAIN requests :
        requests[k].signed_packet = last.reqs[k].signed_packet

\* C12: a publish of a record more recent than the admitted one, with a CAS
\* token equal to the timestamp of the admitted record, is admitted, and the
\* entry keeps the record it admitted first and its tally; no step replaces
\* the admitted record of an entry.
C12_NewerWithMatchingCasAdmitted ==
    /\ (NewerThanAdmitted /\ last.cas = last.before.signed_packet.ts)
           => (Admitted /\ entry(requests, last.key) = last.before)
    /\ AdmittedRecordKept

\* The same, for the steps that find the lock of the registry sound.
NewerWithMatchingCasUnderSoundLock ==
    /\ (NewerThanAdmitted /\ last.cas = last.before.signed_packet.ts
                          /\ last.ret # PanicLock)
           => (Admitted /\ entry(requests, last.key) = last.before)
    /\ AdmittedRecordKept

\* The publish just attempted found an entry of its key that admits a record
\* of the same signature.
SameAsAdmitted ==
    /\ last.op = "publish"
    /\ last.had_entry
    /\ last.packet.sig = last.before.signed_packet.sig

\* C13: a publish of a record whose signature equals that of the record
\* admitted for its key returns Ok and joins the entry, which keeps its
\* record, its success counter and its error counts; the registry holds the
\* same keys as before, one entry each.
C13_SameSignatureJoins ==
    SameAsAdmitted
        => (/\ Admitted
            /\ entry(requests, last.key) = last.before
            /\ DOMAIN requests = DOMAIN last.reqs)

\* The same, for the steps that find the lock of the registry sound.
SameSignatureJoinsUnderSoundLock ==
    (SameAsAdmitted /\ last.ret # PanicLock)
        => (/\ Admitted
            /\ entry(requests, last.key) = last.before
            /\ DOMAIN requests = DOMAIN last.reqs)

\* C14: when start_request returns an error, publish returns that error, the
\* call pushes no relay future, and the registry is what it was before the
\* call.
C14_AdmissionErrorLeavesRegistry ==
    (last.op = "publish" /\ last.ret \in ErrorKinds)
        => (/\ last.result = last.ret
            /\ EndedAtAdmission
            /\ requests = last.reqs)

\* A publish is rejected for the risk of a conflict while the entry of its
\* key holds votes and another key has an entry too.
C14_Witness ==
    /\ last.op = "publish"
    /\ last.ret = "ConflictRisk"
    /\ last.result = "ConflictRisk"
    /\ tally(last.before) > 0
    /\ DOMAIN last.reqs = Keys
    /\ requests = last.reqs
    /\ EndedAtAdmission

\* C15: every outcome of a relay write is mapped to success or to one of the
\* error kinds and handed to add_result; no outcome aborts the publish.
C15_EveryOutcomeIsCounted ==
    last.op = "respond"
        => (/\ last.fed \in {"Ok"} \cup ErrorKinds
            /\ last.ret # PanicTodo
            /\ last.result # PanicTodo)

\* C16: a resolve yields one item for each relay that returned a validly
\* signed record of the key within the maximum size and nothing for the other
\* relays, every item is a record, and the stream is complete when every
\* relay has answered: with k such relays of relays_count, it holds k items.
C16_ResolveYieldsValidRecords ==
    /\ Len(resolving.items) = resolving.valid
    /\ \A i \in 1..Len(resolving.items) : resolving.items[i] \in Packets
    /\ resolving.futures \in 0..relays_count
    /\ resolving.valid <= relays_count - resolving.futures

\* Three relays have answered: two with a valid record, the last one with a
\* record of the key whose declared length is over the maximum.
C16_Witness ==
    /\ relays_count = 3
    /\ resolving.public_key # NoKey
    /\ resolving.futures = 0
    /\ resolving.valid = 2
    /\ Len(resolving.items) = 2
    /\ resolving.response.send = "ok"
    /\ resolving.response.status = 200
    /\ resolving.response.content_length = MAX_BYTES + 1
    /\ resolving.response.body.read = "payload"
    /\ resolving.response.body.key = resolving.public_key

\* The values a relay future hands to add_result.
Results == {"Ok"} \cup ErrorKinds

\* What publish can return when the results order[i], .., order[n] arrive in
\* this order, on the registry reqs.
RECURSIVE feed(_, _, _, _, _)
feed(reqs, n, public_key, order, i) ==
    UNION {LET v == stream_next(f.ret, n - i)
           IN  IF v = "none"
               THEN feed(f.requests, n, public_key, order, i + 1)
               ELSE {v} :
               f \in add_result(reqs, FALSE, n, public_key, order[i])}

\* What a single publish of a record of a key without an entry can return,
\* on n relays whose results arrive in the given order.
publish_result(n, public_key, signed_packet, order) ==
    feed(start_request(<<>>, public_key, signed_packet, None).requests,
         n, public_key, order, 1)

\* How often a result occurs in an arrival order, and in an entry.
occurrences(order, res) == Cardinality({i \in DOMAIN order : order[i] = res})
counted(request, res) ==
    IF res = "Ok" THEN request.success_count ELSE error_count(request, res)

\* The error kinds of maximal count of an arrival order.
most_common_kinds(order) ==
    {e \in ErrorKinds :
        /\ occurrences(order, e) > 0
        /\ \A f \in ErrorKinds : occurrences(order, f) <= occurrences(order, e)}

\* The arrival orders of relays_count results that hold the results counted
\* in the entry.
OrdersWith(request) ==
    {order \in [1..relays_count -> Results] :
        \A res \in Results : occurrences(order, res) >= counted(request, res)}

\* C17: the result of a single publish depends on the multiset of the relay
\* results only: when a publish that started on a fresh entry returns, every
\* arrival order of every multiset that holds the results it has counted
\* gives the same result, or another error kind of maximal count.
C17_ResultIndependentOfOrder ==
    (/\ Voted
     /\ last.result # "none"
     /\ tally(Recount) = relays_count - last.left)
        => \A order \in OrdersWith(Recount) :
               \A w \in publish_result(relays_count, last.key, last.packet, order) :
                   \/ w = last.result
                   \/ {w, last.result} \subseteq most_common_kinds(order)

\* C18: every relay result counted in an entry is the result of a write of
\* the record admitted in that entry, issued by a publish call that was
\* admitted to that very entry.
C18_OneLogicalWritePerKey ==
    Voted => (/\ last.packet.sig = last.before.signed_packet.sig
              /\ last.att)

\* The part of C18 about stray results: a counted result comes from a call
\* admitted to the entry that counts it.
CountedByAdmittedCall ==
    Voted => last.att

\* C19: a step of publish for a key (start_request, add_result) leaves the
\* entry of every other key as it was: its existence, its record, its
\* success counter and its error counts.
C19_OtherKeysUntouched ==
    last.op \in {"publish", "respond"}
        => \A k \in Keys \ {last.key} :
               /\ (k \in DOMAIN requests) = (k \in DOMAIN last.reqs)
               /\ entry(requests, k) = entry(last.reqs, k)

\* A relay result removes the entry of its key while the other key has an
\* entry with a vote counted.
C19_Witness ==
    /\ Voted
    /\ last.key \notin DOMAIN requests
    /\ \E k \in Keys \ {last.key} :
           /\ k \in DOMAIN requests
           /\ tally(requests[k]) > 0
           /\ requests[k] = last.reqs[k]

\* The publish just attempted carries a CAS token that differs from the
\* timestamp of the admitted record.
CasMismatch ==
    /\ NewerThanAdmitted
    /\ last.cas # None
    /\ last.cas # last.before.signed_packet.ts

AdmissionOutcomes == {"Ok", "NotMostRecent", "CasFailed", "ConflictRisk"}

\* C20: a publish of a record more recent than the different record admitted
\* for its key, with a CAS token that differs from the timestamp of the
\* admitted record, returns CasFailed before any relay is contacted and leaves
\* the registry as it was; the admission of a publish ends in Ok,
\* NotMostRecent, CasFailed or ConflictRisk and in nothing else.
C20_CasMismatchIsCasFailed ==
    /\ CasMismatch
           => (/\ last.result = "CasFailed"
               /\ EndedAtAdmission
               /\ requests = last.reqs)
    /\ last.op = "publish" => last.ret \in AdmissionOutcomes

\* The same, for the steps that find the lock of the registry sound.
CasMismatchUnderSoundLock ==
    (last.op = "publish" /\ last.ret # PanicLock)
        => (/\ CasMismatch
                   => (/\ last.result = "CasFailed"
                       /\ EndedAtAdmission
                       /\ requests = last.reqs)
            /\ last.ret \in AdmissionOutcomes)
====
